---- MODULE Spec2Model ----
(***************************************************************************)
(* Model of src/src/actions/index.ts: the ten Astro actions of the book    *)
(* summary generator over the tables Books, BookSections and               *)
(* SectionSummaries.                                                       *)
(*                                                                         *)
(* Every handler is split at its awaits: one step per persistence          *)
(* statement, executed atomically by the store, and one step for the call  *)
(* itself (input schema, requireUser, and whatever the handler computes    *)
(* before its first await).  Requests run in slots; the statements of the  *)
(* requests in different slots interleave freely.                          *)
(*                                                                         *)
(* The store is modelled as the handlers use it: filtered select, insert,  *)
(* update ... returning, delete.  The tables' `references` declarations    *)
(* are not enforced by the modelled store (the handlers do the cascade     *)
(* themselves, parent row first).                                          *)
(*                                                                         *)
(* Ids are natural numbers drawn from one counter (crypto.randomUUID never *)
(* repeats); 0 stands for the empty string.  An optional value is a        *)
(* sequence: <<>> for undefined / NULL, <<v>> for a present value.         *)
(***************************************************************************)
EXTENDS Naturals, Sequences, FiniteSets, TLC

\* Bounds of the model.
MaxNow == 1
MaxSummaries == 2

None == <<>>
Some(v) == <<v>>

NoUser == "anonymous"
Users == {"u1", "u2"}
Slots == {1, 2}

VARIABLES Books, BookSections, SectionSummaries, nextId, now, reqs

tables == <<Books, BookSections, SectionSummaries>>
vars == <<Books, BookSections, SectionSummaries, nextId, now, reqs>>

-----------------------------------------------------------------------------
\* Input schemas (the `input:` of each defineAction): TRUE iff zod accepts.

createBookInput(in) == in.title # ""

\* Faulty variant: the schema without its refine.
updateBookInput_noRefine(in) ==
    /\ in.id >= 1
    /\ (in.title # None => in.title[1] # "")

updateBookInput(in) ==
    /\ in.id >= 1
    /\ (in.title # None => in.title[1] # "")
    /\ \/ in.title # None
       \/ in.author # None
       \/ in.sourceType # None
       \/ in.sourceUrl # None
       \/ in.language # None
       \/ in.notes # None

listBooksInput(in) == TRUE

createBookSectionInput(in) == in.bookId >= 1 /\ in.rawText # ""

updateBookSectionInput(in) ==
    /\ in.id >= 1
    /\ in.bookId >= 1
    /\ \/ in.sectionType # None
       \/ in.orderIndex # None
       \/ in.title # None
       \/ in.rawText # None

deleteBookSectionInput(in) == in.id >= 1 /\ in.bookId >= 1

listBookSectionsInput(in) == in.bookId >= 1

createSectionSummaryInput(in) ==
    in.sectionId >= 1 /\ in.bookId >= 1 /\ in.summaryText # ""

listSectionSummariesInput(in) == in.sectionId >= 1 /\ in.bookId >= 1

\* Faulty variant: any caller passes.
requireUser_anyone(user) == TRUE

\* requireUser: TRUE iff context.locals.user is present.
requireUser(user) == user # NoUser

-----------------------------------------------------------------------------
\* Rows written by the handlers.

createBookValues(id, user, in, t) ==
    [id |-> id, userId |-> user, title |-> in.title, author |-> in.author,
     sourceType |-> in.sourceType, sourceUrl |-> in.sourceUrl,
     language |-> in.language, notes |-> in.notes,
     createdAt |-> t, updatedAt |-> t]

\* Faulty variant: a field counts as supplied only when it is truthy.
updateBookSet_truthy(row, in, t) ==
    [row EXCEPT
       !.title = IF in.title # None /\ in.title # Some("") THEN in.title[1] ELSE @,
       !.author = IF in.author # None /\ in.author # Some("") THEN in.author ELSE @,
       !.sourceType = IF in.sourceType # None /\ in.sourceType # Some("")
                      THEN in.sourceType ELSE @,
       !.sourceUrl = IF in.sourceUrl # None /\ in.sourceUrl # Some("")
                     THEN in.sourceUrl ELSE @,
       !.language = IF in.language # None /\ in.language # Some("")
                    THEN in.language ELSE @,
       !.notes = IF in.notes # None /\ in.notes # Some("") THEN in.notes ELSE @,
       !.updatedAt = t]

\* Faulty variant: the update stamps createdAt as well.
updateBookSet_stampsCreated(row, in, t) ==
    [row EXCEPT
       !.title = IF in.title # None THEN in.title[1] ELSE @,
       !.author = IF in.author # None THEN in.author ELSE @,
       !.sourceType = IF in.sourceType # None THEN in.sourceType ELSE @,
       !.sourceUrl = IF in.sourceUrl # None THEN in.sourceUrl ELSE @,
       !.language = IF in.language # None THEN in.language ELSE @,
       !.notes = IF in.notes # None THEN in.notes ELSE @,
       !.createdAt = t,
       !.updatedAt = t]

updateBookSet(row, in, t) ==
    [row EXCEPT
       !.title = IF in.title # None THEN in.title[1] ELSE @,
       !.author = IF in.author # None THEN in.author ELSE @,
       !.sourceType = IF in.sourceType # None THEN in.sourceType ELSE @,
       !.sourceUrl = IF in.sourceUrl # None THEN in.sourceUrl ELSE @,
       !.language = IF in.language # None THEN in.language ELSE @,
       !.notes = IF in.notes # None THEN in.notes ELSE @,
       !.updatedAt = t]

createBookSectionValues(id, in, t) ==
    [id |-> id, bookId |-> in.bookId, sectionType |-> in.sectionType,
     orderIndex |-> IF in.orderIndex # None THEN in.orderIndex ELSE Some(1),
     title |-> in.title, rawText |-> in.rawText, createdAt |-> t]

updateBookSectionSet(row, in) ==
    [row EXCEPT
       !.sectionType = IF in.sectionType # None THEN in.sectionType ELSE @,
       !.orderIndex = IF in.orderIndex # None THEN in.orderIndex ELSE @,
       !.title = IF in.title # None THEN in.title ELSE @,
       !.rawText = IF in.rawText # None THEN in.rawText[1] ELSE @]

createSectionSummaryValues(id, in, t) ==
    [id |-> id, sectionId |-> in.sectionId, variant |-> in.variant,
     language |-> in.language, summaryText |-> in.summaryText, createdAt |-> t]

-----------------------------------------------------------------------------
\* The statements, as functions of the tables they read.

\* const [row] = ...: the first row of a result, or undefined.
First(rows) == IF rows = {} THEN None ELSE Some(CHOOSE r \in rows : TRUE)

\* Faulty variant: the lookup forgets the owner.
selectOwnedBook_anyOwner(books, bookId, userId) ==
    {b \in books : b.id = bookId}

selectOwnedBook(books, bookId, userId) ==
    {b \in books : b.id = bookId /\ b.userId = userId}

selectOwnedSection(sections, sectionId, bookId) ==
    {s \in sections : s.id = sectionId /\ s.bookId = bookId}

\* Faulty variant: the listing forgets the owner.
selectBooksByUser_everyone(books, userId) == books

selectBooksByUser(books, userId) == {b \in books : b.userId = userId}

selectSectionsByBook(sections, bookId) == {s \in sections : s.bookId = bookId}

selectSummariesBySection(summaries, sectionId) ==
    {m \in summaries : m.sectionId = sectionId}

updateBooksWhere(books, in, t) ==
    {IF b.id = in.id THEN updateBookSet(b, in, t) ELSE b : b \in books}

updateBookSectionsWhere(sections, in) ==
    {IF s.id = in.id THEN updateBookSectionSet(s, in) ELSE s : s \in sections}

deleteBookSectionsWhere(sections, id) == {s \in sections : s.id # id}

\* Faulty variant: the cascade matches the summaries' own id.
deleteSectionSummariesWhere_byId(summaries, id) ==
    {m \in summaries : m.id # id}

deleteSectionSummariesWhere(summaries, id) ==
    {m \in summaries : m.sectionId # id}

-----------------------------------------------------------------------------
\* Inputs the requests are drawn from.

BookIdInputs == {1, 2}
SectionIdInputs == {3, 5}

createBookInputs ==
    { [title |-> "", author |-> None, sourceType |-> None, sourceUrl |-> None,
       language |-> None, notes |-> None],
      [title |-> "Moby Dick", author |-> None, sourceType |-> None,
       sourceUrl |-> None, language |-> None, notes |-> None],
      [title |-> "Emma", author |-> Some("Austen"), sourceType |-> Some("url"),
       sourceUrl |-> Some(""), language |-> Some("en"), notes |-> Some("n")] }

BookPatches ==
    { [title |-> None, author |-> None, sourceType |-> None, sourceUrl |-> None,
       language |-> None, notes |-> None],
      [title |-> Some(""), author |-> None, sourceType |-> None,
       sourceUrl |-> None, language |-> None, notes |-> Some("x")],
      [title |-> None, author |-> None, sourceType |-> None, sourceUrl |-> None,
       language |-> None, notes |-> Some("x")],
      [title |-> None, author |-> None, sourceType |-> None, sourceUrl |-> None,
       language |-> None, notes |-> Some("")],
      [title |-> Some("X"), author |-> Some("a2"), sourceType |-> Some("upload"),
       sourceUrl |-> Some("u2"), language |-> Some("ta"), notes |-> Some("n2")] }

updateBookInputs ==
    { [id |-> b, title |-> p.title, author |-> p.author,
       sourceType |-> p.sourceType, sourceUrl |-> p.sourceUrl,
       language |-> p.language, notes |-> p.notes] :
      b \in BookIdInputs, p \in BookPatches }

listBooksInputs == { [none |-> None] }

SectionDrafts ==
    { [sectionType |-> None, orderIndex |-> None, title |-> None, rawText |-> ""],
      [sectionType |-> None, orderIndex |-> None, title |-> None,
       rawText |-> "Call me Ishmael"],
      [sectionType |-> Some("chapter"), orderIndex |-> Some(0),
       title |-> Some("Ch"), rawText |-> "r2"] }

createBookSectionInputs ==
    { [bookId |-> b, sectionType |-> d.sectionType, orderIndex |-> d.orderIndex,
       title |-> d.title, rawText |-> d.rawText] :
      b \in BookIdInputs, d \in SectionDrafts }

SectionPatches ==
    { [sectionType |-> None, orderIndex |-> None, title |-> None, rawText |-> None],
      [sectionType |-> None, orderIndex |-> None, title |-> None,
       rawText |-> Some("")],
      [sectionType |-> Some("appendix"), orderIndex |-> Some(0),
       title |-> Some("T"), rawText |-> Some("r3")] }

updateBookSectionInputs ==
    { [id |-> s, bookId |-> b, sectionType |-> p.sectionType,
       orderIndex |-> p.orderIndex, title |-> p.title, rawText |-> p.rawText] :
      s \in SectionIdInputs, b \in BookIdInputs, p \in SectionPatches }

deleteBookSectionInputs ==
    { [id |-> s, bookId |-> b] : s \in SectionIdInputs, b \in BookIdInputs }

listBookSectionsInputs == { [bookId |-> b] : b \in BookIdInputs }

SummaryDrafts ==
    { [variant |-> None, language |-> None, summaryText |-> ""],
      [variant |-> Some("short"), language |-> None,
       summaryText |-> "A sailor's tale"] }

createSectionSummaryInputs ==
    { [sectionId |-> s, bookId |-> b, variant |-> d.variant,
       language |-> d.language, summaryText |-> d.summaryText] :
      s \in SectionIdInputs, b \in BookIdInputs, d \in SummaryDrafts }

listSectionSummariesInputs ==
    { [sectionId |-> s, bookId |-> b] : s \in SectionIdInputs, b \in BookIdInputs }

-----------------------------------------------------------------------------
\* Requests.

NoOut == [code |-> "PENDING", row |-> None, items |-> {}, total |-> 0]

Idle ==
    [op |-> "none", user |-> NoUser, in |-> [none |-> None], pc |-> "idle",
     ts |-> 0, reads |-> 0, writes |-> 0, out |-> NoOut]

\* An ActionError (or the input error of defineAction) ends the request.
Throw(r, code) == [r EXCEPT !.pc = "done", !.out = [NoOut EXCEPT !.code = code]]

\* return { success: true, data: { <row> } }
ReturnRow(r, row) ==
    [r EXCEPT !.pc = "done", !.out = [NoOut EXCEPT !.code = "OK", !.row = row]]

\* return { success: true, data: { items, total: items.length } }
ReturnItems(r, rows) ==
    [r EXCEPT !.pc = "done",
              !.out = [NoOut EXCEPT !.code = "OK", !.items = rows,
                                    !.total = Cardinality(rows)]]

\* Faulty variant: the identity check ahead of the schema.
defineAction_userFirst(valid, user) ==
    IF user = NoUser THEN "UNAUTHORIZED"
    ELSE IF ~valid THEN "VALIDATION"
    ELSE "OK"

\* defineAction: the input schema is parsed first, then the handler runs and
\* its first statement is requireUser.
defineAction(valid, user) ==
    IF ~valid THEN "VALIDATION"
    ELSE IF ~requireUser(user) THEN "UNAUTHORIZED"
    ELSE "OK"

\* The book id a request names: input.id for updateBook, input.bookId otherwise.
BookIdOf(r) == IF r.op = "updateBook" THEN r.in.id ELSE r.in.bookId

\* The section id a request names.
SectionIdOf(r) ==
    IF r.op \in {"updateBookSection", "deleteBookSection"}
    THEN r.in.id ELSE r.in.sectionId

SectionOps ==
    {"updateBookSection", "deleteBookSection", "createSectionSummary",
     "listSectionSummaries"}

-----------------------------------------------------------------------------
\* The store a behaviour starts from: empty, or built by earlier requests
\* (two users with a book each, three sections, n summaries on section 3
\* and one on section 4).

MobyDick == CHOOSE i \in createBookInputs : i.title = "Moby Dick"
Emma == CHOOSE i \in createBookInputs : i.title = "Emma"
Ishmael(b) ==
    CHOOSE i \in createBookSectionInputs : i.bookId = b /\ i.orderIndex = None /\ i.rawText # ""
Chapter(b) ==
    CHOOSE i \in createBookSectionInputs : i.bookId = b /\ i.orderIndex # None
Tale(s) ==
    [sectionId |-> s, bookId |-> 1, variant |-> Some("short"), language |-> None,
     summaryText |-> "A sailor's tale"]

SeedBooks ==
    { createBookValues(1, "u1", MobyDick, 0), createBookValues(2, "u2", Emma, 0) }

SeedSections ==
    { createBookSectionValues(3, Ishmael(1), 0),
      createBookSectionValues(4, Chapter(1), 0),
      createBookSectionValues(5, Ishmael(2), 0) }

SeedSummaries(n) ==
    { createSectionSummaryValues(5 + k, Tale(3), 0) : k \in 1..n }
      \cup { createSectionSummaryValues(6 + n, Tale(4), 0) }

Init ==
    /\ now = 0
    /\ reqs = [s \in Slots |-> Idle]
    /\ \/ /\ Books = {}
          /\ BookSections = {}
          /\ SectionSummaries = {}
          /\ nextId = 1
       \/ \E n \in 0..MaxSummaries :
            /\ Books = SeedBooks
            /\ BookSections = SeedSections
            /\ SectionSummaries = SeedSummaries(n)
            /\ nextId = 7 + n

-----------------------------------------------------------------------------
\* The call of an action: schema, requireUser, and the handler up to its
\* first await.

Call(op, user, in, valid, pc) ==
    LET r == [Idle EXCEPT !.op = op, !.user = user, !.in = in, !.ts = now]
        code == defineAction(valid, user)
    IN IF code = "OK" THEN [r EXCEPT !.pc = pc] ELSE Throw(r, code)

\* A slot is free for a new request (slots fill in order).
Free(s) ==
    /\ reqs[s].pc = "idle"
    /\ \A t \in Slots : t < s => reqs[t].pc # "idle"

Callers == Users \cup {NoUser}

createBook(s) ==
    /\ Free(s)
    /\ \E u \in Callers, in \in createBookInputs :
         reqs' = [reqs EXCEPT ![s] =
                    Call("createBook", u, in, createBookInput(in), "stmt")]
    /\ UNCHANGED <<Books, BookSections, SectionSummaries, nextId, now>>

updateBook(s) ==
    /\ Free(s)
    /\ \E u \in Callers, in \in updateBookInputs :
         reqs' = [reqs EXCEPT ![s] =
                    Call("updateBook", u, in, updateBookInput(in), "book")]
    /\ UNCHANGED <<Books, BookSections, SectionSummaries, nextId, now>>

listBooks(s) ==
    /\ Free(s)
    /\ \E u \in Callers, in \in listBooksInputs :
         reqs' = [reqs EXCEPT ![s] =
                    Call("listBooks", u, in, listBooksInput(in), "stmt")]
    /\ UNCHANGED <<Books, BookSections, SectionSummaries, nextId, now>>

createBookSection(s) ==
    /\ Free(s)
    /\ \E u \in Callers, in \in createBookSectionInputs :
         reqs' = [reqs EXCEPT ![s] =
                    Call("createBookSection", u, in, createBookSectionInput(in), "book")]
    /\ UNCHANGED <<Books, BookSections, SectionSummaries, nextId, now>>

updateBookSection(s) ==
    /\ Free(s)
    /\ \E u \in Callers, in \in updateBookSectionInputs :
         reqs' = [reqs EXCEPT ![s] =
                    Call("updateBookSection", u, in, updateBookSectionInput(in), "book")]
    /\ UNCHANGED <<Books, BookSections, SectionSummaries, nextId, now>>

deleteBookSection(s) ==
    /\ Free(s)
    /\ \E u \in Callers, in \in deleteBookSectionInputs :
         reqs' = [reqs EXCEPT ![s] =
                    Call("deleteBookSection", u, in, deleteBookSectionInput(in), "book")]
    /\ UNCHANGED <<Books, BookSections, SectionSummaries, nextId, now>>

listBookSections(s) ==
    /\ Free(s)
    /\ \E u \in Callers, in \in listBookSectionsInputs :
         reqs' = [reqs EXCEPT ![s] =
                    Call("listBookSections", u, in, listBookSectionsInput(in), "book")]
    /\ UNCHANGED <<Books, BookSections, SectionSummaries, nextId, now>>

createSectionSummary(s) ==
    /\ Free(s)
    /\ \E u \in Callers, in \in createSectionSummaryInputs :
         reqs' = [reqs EXCEPT ![s] =
                    Call("createSectionSummary", u, in, createSectionSummaryInput(in), "book")]
    /\ UNCHANGED <<Books, BookSections, SectionSummaries, nextId, now>>

listSectionSummaries(s) ==
    /\ Free(s)
    /\ \E u \in Callers, in \in listSectionSummariesInputs :
         reqs' = [reqs EXCEPT ![s] =
                    Call("listSectionSummaries", u, in, listSectionSummariesInput(in), "book")]
    /\ UNCHANGED <<Books, BookSections, SectionSummaries, nextId, now>>

-----------------------------------------------------------------------------
\* The persistence statements, one step each.  Each statement is a function
\* from the request and the tables it runs on to the request's next state and
\* the tables' next contents; `id` is the fresh id and `t` the time the
\* handler reads.

Outcome(req, books, sections, summaries) ==
    [req |-> req, Books |-> books, BookSections |-> sections,
     SectionSummaries |-> summaries]

\* getOwnedBook: select from Books where id and userId match; NOT_FOUND when
\* no row matches.  getOwnedSection starts with it.
getOwnedBookStmt(r, books, sections, summaries, t) ==
    LET rows == selectOwnedBook(books, BookIdOf(r), r.user)
        read == [r EXCEPT !.reads = @ + 1, !.ts = t]
    IN Outcome(IF First(rows) = None THEN Throw(read, "NOT_FOUND")
               ELSE [read EXCEPT !.pc = IF r.op \in SectionOps
                                        THEN "section" ELSE "stmt"],
               books, sections, summaries)

\* getOwnedSection, after its getOwnedBook: select from BookSections where id
\* and bookId match; NOT_FOUND when no row matches.
getOwnedSectionStmt(r, books, sections, summaries, t) ==
    LET rows == selectOwnedSection(sections, SectionIdOf(r), r.in.bookId)
        read == [r EXCEPT !.reads = @ + 1, !.ts = t]
    IN Outcome(IF First(rows) = None THEN Throw(read, "NOT_FOUND")
               ELSE [read EXCEPT !.pc = "stmt"],
               books, sections, summaries)

createBookStmt(r, books, sections, summaries, id) ==
    LET book == createBookValues(id, r.user, r.in, r.ts)
    IN Outcome(ReturnRow([r EXCEPT !.writes = @ + 1], Some(book)),
               books \cup {book}, sections, summaries)

updateBookStmt(r, books, sections, summaries, t) ==
    LET hit == {b \in books : b.id = r.in.id}
        returning == {updateBookSet(b, r.in, t) : b \in hit}
    IN Outcome(ReturnRow([r EXCEPT !.writes = @ + Cardinality(hit)],
                         First(returning)),
               updateBooksWhere(books, r.in, t), sections, summaries)

listBooksStmt(r, books, sections, summaries) ==
    Outcome(ReturnItems([r EXCEPT !.reads = @ + 1],
                        selectBooksByUser(books, r.user)),
            books, sections, summaries)

createBookSectionStmt(r, books, sections, summaries, id, t) ==
    LET section == createBookSectionValues(id, r.in, t)
    IN Outcome(ReturnRow([r EXCEPT !.writes = @ + 1], Some(section)),
               books, sections \cup {section}, summaries)

updateBookSectionStmt(r, books, sections, summaries) ==
    LET hit == {x \in sections : x.id = r.in.id}
        returning == {updateBookSectionSet(x, r.in) : x \in hit}
    IN Outcome(ReturnRow([r EXCEPT !.writes = @ + Cardinality(hit)],
                         First(returning)),
               books, updateBookSectionsWhere(sections, r.in), summaries)

deleteBookSectionStmt(r, books, sections, summaries) ==
    LET after == deleteBookSectionsWhere(sections, r.in.id)
    IN Outcome([r EXCEPT !.pc = "stmt2",
                         !.writes = @ + Cardinality(sections \ after)],
               books, after, summaries)

deleteSectionSummariesStmt(r, books, sections, summaries) ==
    LET after == deleteSectionSummariesWhere(summaries, r.in.id)
    IN Outcome(ReturnRow([r EXCEPT !.writes = @ + Cardinality(summaries \ after)],
                         None),
               books, sections, after)

listBookSectionsStmt(r, books, sections, summaries) ==
    Outcome(ReturnItems([r EXCEPT !.reads = @ + 1],
                        selectSectionsByBook(sections, r.in.bookId)),
            books, sections, summaries)

createSectionSummaryStmt(r, books, sections, summaries, id, t) ==
    LET summary == createSectionSummaryValues(id, r.in, t)
    IN Outcome(ReturnRow([r EXCEPT !.writes = @ + 1], Some(summary)),
               books, sections, summaries \cup {summary})

listSectionSummariesStmt(r, books, sections, summaries) ==
    Outcome(ReturnItems([r EXCEPT !.reads = @ + 1],
                        selectSummariesBySection(summaries, r.in.sectionId)),
            books, sections, summaries)

\* The store executes a statement of the request in slot s.
Commit(s, o) ==
    /\ reqs' = [reqs EXCEPT ![s] = o.req]
    /\ Books' = o.Books
    /\ BookSections' = o.BookSections
    /\ SectionSummaries' = o.SectionSummaries

getOwnedBook(s) ==
    /\ reqs[s].pc = "book"
    /\ Commit(s, getOwnedBookStmt(reqs[s], Books, BookSections,
                                  SectionSummaries, now))
    /\ UNCHANGED <<nextId, now>>

getOwnedSection(s) ==
    /\ reqs[s].pc = "section"
    /\ Commit(s, getOwnedSectionStmt(reqs[s], Books, BookSections,
                                     SectionSummaries, now))
    /\ UNCHANGED <<nextId, now>>

\* createdAt and updatedAt are the `now` the handler took when it was called.
createBookInsert(s) ==
    /\ reqs[s].pc = "stmt" /\ reqs[s].op = "createBook"
    /\ Commit(s, createBookStmt(reqs[s], Books, BookSections,
                                SectionSummaries, nextId))
    /\ nextId' = nextId + 1
    /\ UNCHANGED now

\* updatedAt is new Date(), taken between the ownership lookup and the update.
updateBookUpdate(s) ==
    /\ reqs[s].pc = "stmt" /\ reqs[s].op = "updateBook"
    /\ \E t \in reqs[s].ts..now :
         Commit(s, updateBookStmt(reqs[s], Books, BookSections,
                                  SectionSummaries, t))
    /\ UNCHANGED <<nextId, now>>

listBooksSelect(s) ==
    /\ reqs[s].pc = "stmt" /\ reqs[s].op = "listBooks"
    /\ Commit(s, listBooksStmt(reqs[s], Books, BookSections, SectionSummaries))
    /\ UNCHANGED <<nextId, now>>

createBookSectionInsert(s) ==
    /\ reqs[s].pc = "stmt" /\ reqs[s].op = "createBookSection"
    /\ \E t \in reqs[s].ts..now :
         Commit(s, createBookSectionStmt(reqs[s], Books, BookSections,
                                         SectionSummaries, nextId, t))
    /\ nextId' = nextId + 1
    /\ UNCHANGED now

updateBookSectionUpdate(s) ==
    /\ reqs[s].pc = "stmt" /\ reqs[s].op = "updateBookSection"
    /\ Commit(s, updateBookSectionStmt(reqs[s], Books, BookSections,
                                       SectionSummaries))
    /\ UNCHANGED <<nextId, now>>

deleteBookSectionDeleteSection(s) ==
    /\ reqs[s].pc = "stmt" /\ reqs[s].op = "deleteBookSection"
    /\ Commit(s, deleteBookSectionStmt(reqs[s], Books, BookSections,
                                       SectionSummaries))
    /\ UNCHANGED <<nextId, now>>

deleteBookSectionDeleteSummaries(s) ==
    /\ reqs[s].pc = "stmt2" /\ reqs[s].op = "deleteBookSection"
    /\ Commit(s, deleteSectionSummariesStmt(reqs[s], Books, BookSections,
                                            SectionSummaries))
    /\ UNCHANGED <<nextId, now>>

listBookSectionsSelect(s) ==
    /\ reqs[s].pc = "stmt" /\ reqs[s].op = "listBookSections"
    /\ Commit(s, listBookSectionsStmt(reqs[s], Books, BookSections,
                                      SectionSummaries))
    /\ UNCHANGED <<nextId, now>>

createSectionSummaryInsert(s) ==
    /\ reqs[s].pc = "stmt" /\ reqs[s].op = "createSectionSummary"
    /\ \E t \in reqs[s].ts..now :
         Commit(s, createSectionSummaryStmt(reqs[s], Books, BookSections,
                                            SectionSummaries, nextId, t))
    /\ nextId' = nextId + 1
    /\ UNCHANGED now

listSectionSummariesSelect(s) ==
    /\ reqs[s].pc = "stmt" /\ reqs[s].op = "listSectionSummaries"
    /\ Commit(s, listSectionSummariesStmt(reqs[s], Books, BookSections,
                                          SectionSummaries))
    /\ UNCHANGED <<nextId, now>>

\* Time passes; only a request in flight can tell.
Tick ==
    /\ now < MaxNow
    /\ \E s \in Slots : reqs[s].pc \notin {"idle", "done"}
    /\ now' = now + 1
    /\ UNCHANGED <<Books, BookSections, SectionSummaries, nextId, reqs>>

Next ==
    \/ \E s \in Slots : createBook(s)
    \/ \E s \in Slots : updateBook(s)
    \/ \E s \in Slots : listBooks(s)
    \/ \E s \in Slots : createBookSection(s)
    \/ \E s \in Slots : updateBookSection(s)
    \/ \E s \in Slots : deleteBookSection(s)
    \/ \E s \in Slots : listBookSections(s)
    \/ \E s \in Slots : createSectionSummary(s)
    \/ \E s \in Slots : listSectionSummaries(s)
    \/ \E s \in Slots : getOwnedBook(s)
    \/ \E s \in Slots : getOwnedSection(s)
    \/ \E s \in Slots : createBookInsert(s)
    \/ \E s \in Slots : updateBookUpdate(s)
    \/ \E s \in Slots : listBooksSelect(s)
    \/ \E s \in Slots : createBookSectionInsert(s)
    \/ \E s \in Slots : updateBookSectionUpdate(s)
    \/ \E s \in Slots : deleteBookSectionDeleteSection(s)
    \/ \E s \in Slots : deleteBookSectionDeleteSummaries(s)
    \/ \E s \in Slots : listBookSectionsSelect(s)
    \/ \E s \in Slots : createSectionSummaryInsert(s)
    \/ \E s \in Slots : listSectionSummariesSelect(s)
    \/ Tick

Spec == Init /\ [][Next]_vars

-----------------------------------------------------------------------------
\* Vocabulary of the properties.

Req(s) == reqs[s]
Called(s) == reqs[s].pc # "idle"
Done(s) == reqs[s].pc = "done"
Moved(s) == reqs'[s] # reqs[s]

\* The input is one the schema of its action rejects: an empty title, rawText
\* (on create) or summaryText, or an update that names no field.
Rejected(r) ==
    \/ r.op = "createBook" /\ r.in.title = ""
    \/ r.op = "updateBook" /\ r.in.title = Some("")
    \/ /\ r.op = "updateBook"
       /\ r.in.title = None /\ r.in.author = None /\ r.in.sourceType = None
       /\ r.in.sourceUrl = None /\ r.in.language = None /\ r.in.notes = None
    \/ r.op = "createBookSection" /\ r.in.rawText = ""
    \/ /\ r.op = "updateBookSection"
       /\ r.in.sectionType = None /\ r.in.orderIndex = None
       /\ r.in.title = None /\ r.in.rawText = None
    \/ r.op = "createSectionSummary" /\ r.in.summaryText = ""

\* The operations on sections and summaries.
Guarded ==
    {"createBookSection", "updateBookSection", "deleteBookSection",
     "listBookSections", "createSectionSummary", "listSectionSummaries"}

\* No book with the request's bookId belongs to the requester.
NotOwned(r) ==
    ~ \E b \in Books : b.id = r.in.bookId /\ b.userId = r.user

\* No section with the request's section id lies under the request's bookId.
NotInBook(r) ==
    ~ \E x \in BookSections : x.id = SectionIdOf(r) /\ x.bookId = r.in.bookId

\* The request ended in NOT_FOUND without having written a row.
Refused(r) ==
    r.pc = "done" /\ r.out.code = "NOT_FOUND" /\ r.writes = 0

-----------------------------------------------------------------------------
\* C1: a section or summary operation whose bookId names no book of the
\* requester, or whose section id names no section under that bookId, ends in
\* NOT_FOUND and writes nothing: the request never gets past the book lookup
\* while the book is not the requester's, and the lookup that finds no row
\* ends the request with the three tables as they were.
C1_OwnershipGate ==
    /\ [](\A s \in Slots :
            (Req(s).op \in Guarded /\ Req(s).user # NoUser
               /\ ~Rejected(Req(s)) /\ NotOwned(Req(s)))
            => (Req(s).pc = "book" \/ Refused(Req(s))))
    /\ [][\A s \in Slots :
            (/\ Req(s).op \in Guarded
             /\ Moved(s)
             /\ \/ Req(s).pc = "book" /\ NotOwned(Req(s))
                \/ Req(s).pc = "section" /\ NotInBook(Req(s)))
            => (Refused(reqs'[s]) /\ tables' = tables)]_vars

\* A request was refused although its bookId and its section id both name
\* rows, the section under that very book: the book is another user's.
C1_Witness ==
    \E s \in Slots :
        /\ Req(s).op \in SectionOps
        /\ Refused(Req(s))
        /\ \E b \in Books : b.id = Req(s).in.bookId /\ b.userId # Req(s).user
        /\ ~NotInBook(Req(s))

C3_ValidationGate ==
    \A s \in Slots :
        (Called(s) /\ Rejected(Req(s))) =>
            /\ Done(s)
            /\ Req(s).out.code = "VALIDATION"
            /\ Req(s).reads = 0
            /\ Req(s).writes = 0

\* An updateBook that named only the id was rejected.
C3_Witness ==
    \E s \in Slots :
        /\ Req(s).op = "updateBook" /\ Req(s).in.title = None
        /\ Rejected(Req(s))
        /\ Req(s).out.code = "VALIDATION"

\* C4: a request with valid input and no signed-in user ends in UNAUTHORIZED
\* before any statement is issued: it has read nothing and written nothing.
C4_Unauthorized ==
    \A s \in Slots :
        (Called(s) /\ Req(s).user = NoUser /\ ~Rejected(Req(s))) =>
            /\ Done(s)
            /\ Req(s).out.code = "UNAUTHORIZED"
            /\ Req(s).reads = 0
            /\ Req(s).writes = 0

\* An anonymous listSectionSummaries and an anonymous createBook were both
\* turned away.
C4_Witness ==
    \E s, t \in Slots :
        /\ Req(s).op = "listSectionSummaries" /\ Req(s).user = NoUser
        /\ Req(s).out.code = "UNAUTHORIZED"
        /\ Req(t).op = "createBook" /\ Req(t).user = NoUser
        /\ Req(t).out.code = "UNAUTHORIZED"

\* C5 as stated: a request with no signed-in user ends in UNAUTHORIZED,
\* whatever its input.
C5_IdentityFirst ==
    \A s \in Slots :
        (Called(s) /\ Req(s).user = NoUser) =>
            (Done(s) /\ Req(s).out.code = "UNAUTHORIZED")

\* C5 amended: the identity check runs after the input schema and before any
\* statement; a request with no signed-in user never reads or writes, and ends
\* in VALIDATION when its input is rejected and in UNAUTHORIZED otherwise.
C5_IdentityAfterSchema ==
    \A s \in Slots :
        (Called(s) /\ Req(s).user = NoUser) =>
            /\ Done(s)
            /\ Req(s).reads = 0
            /\ Req(s).writes = 0
            /\ Req(s).out.code =
                 IF Rejected(Req(s)) THEN "VALIDATION" ELSE "UNAUTHORIZED"

\* An anonymous request with a rejected input ended in VALIDATION.
C5_Witness ==
    \E s \in Slots :
        /\ Req(s).user = NoUser
        /\ Rejected(Req(s))
        /\ Req(s).out.code = "VALIDATION"

\* The value a patch leaves in an optional column: the supplied value, the
\* empty string included, or the old value when the field is omitted.
Patched(old, supplied) == IF supplied = None THEN old ELSE supplied

\* C6: the update statement of a successful updateBook rewrites the targeted
\* row with the supplied fields (an empty string is a supplied value) and the
\* omitted ones, id, userId and createdAt as they were; only updatedAt may
\* change besides; every other row of the three tables stays as it was.
C6_PartialUpdate ==
    [][\A s \in Slots :
         (Req(s).op = "updateBook" /\ Req(s).pc = "stmt" /\ Moved(s)) =>
           /\ reqs'[s].pc = "done"
           /\ reqs'[s].out.code = "OK"
           /\ BookSections' = BookSections
           /\ SectionSummaries' = SectionSummaries
           /\ Cardinality(Books') = Cardinality(Books)
           /\ \A b \in Books : b.id # Req(s).in.id => b \in Books'
           /\ \A b \in Books :
                b.id = Req(s).in.id =>
                  \E c \in Books' :
                    /\ reqs'[s].out.row = Some(c)
                    /\ c.id = b.id
                    /\ c.userId = b.userId
                    /\ c.createdAt = b.createdAt
                    /\ c.title = IF Req(s).in.title = None
                                 THEN b.title ELSE Req(s).in.title[1]
                    /\ c.author = Patched(b.author, Req(s).in.author)
                    /\ c.sourceType = Patched(b.sourceType, Req(s).in.sourceType)
                    /\ c.sourceUrl = Patched(b.sourceUrl, Req(s).in.sourceUrl)
                    /\ c.language = Patched(b.language, Req(s).in.language)
                    /\ c.notes = Patched(b.notes, Req(s).in.notes)]_vars

\* An updateBook that supplied only notes, as the empty string, succeeded on a
\* book that had notes and an author: the notes are now empty, the author kept.
C6_Witness ==
    \E s \in Slots :
        /\ Req(s).op = "updateBook" /\ Done(s) /\ Req(s).out.code = "OK"
        /\ Req(s).in.notes = Some("") /\ Req(s).in.author = None
        /\ Req(s).out.row # None
        /\ Req(s).out.row[1].notes = Some("")
        /\ Req(s).out.row[1].author = Some("Austen")
        /\ Req(s).out.row[1] \in Books

\* C8: no step changes the id, the parent reference or createdAt of a row that
\* stays, nor any field of a summary; a summary leaves the table only in the
\* second statement of a deleteSection on its section.
C8_Immutable ==
    [][/\ \A b \in Books : \A c \in Books' :
            c.id = b.id => (c.userId = b.userId /\ c.createdAt = b.createdAt)
       /\ \A x \in BookSections : \A y \in BookSections' :
            y.id = x.id => (y.bookId = x.bookId /\ y.createdAt = x.createdAt)
       /\ \A m \in SectionSummaries : \A n \in SectionSummaries' :
            n.id = m.id => n = m
       /\ \A m \in SectionSummaries :
            m \notin SectionSummaries' =>
              \E s \in Slots :
                /\ Req(s).op = "deleteBookSection" /\ Req(s).pc = "stmt2"
                /\ Req(s).in.id = m.sectionId
                /\ reqs'[s].pc = "done"]_vars

\* A book and a section have both been updated, at a time later than their
\* creation, and summaries exist.
C8_Witness ==
    \E s, t \in Slots :
        /\ Req(s).op = "updateBook" /\ Done(s) /\ Req(s).out.row # None
        /\ Req(s).out.row[1].updatedAt > Req(s).out.row[1].createdAt
        /\ Req(t).op = "updateBookSection" /\ Done(t) /\ Req(t).out.row # None
        /\ SectionSummaries # {}

\* A deleteSection is between its call and its return.
Deleting ==
    \E s \in Slots :
        Req(s).op = "deleteBookSection" /\ Req(s).pc \notin {"idle", "done"}

C10_UpdateReturnsRow ==
    \A s \in Slots :
        (Req(s).op = "updateBookSection" /\ Done(s) /\ Req(s).out.code = "OK") =>
            /\ Req(s).out.row # None
            /\ Req(s).out.row[1].id = Req(s).in.id
            /\ Req(s).in.title # None => Req(s).out.row[1].title = Req(s).in.title
            /\ Req(s).in.rawText # None =>
                 Req(s).out.row[1].rawText = Req(s).in.rawText[1]

\* The section ids that requests of user u in flight hold after
\* getOwnedSection found them under a book of u.
Held(u, rq) ==
    {SectionIdOf(rq[s]) :
        s \in {z \in Slots : /\ rq[z].user = u
                             /\ rq[z].op \in SectionOps
                             /\ rq[z].pc \in {"stmt", "stmt2"}}}

\* The rows of user u: u's books, the sections under them, and the summaries
\* under those sections or under a section a request of u holds.
ViewBooks(u, books) == {b \in books : b.userId = u}
ViewSections(u, books, sections) ==
    {x \in sections : \E b \in books : b.id = x.bookId /\ b.userId = u}
ViewSummaries(u, rq, books, sections, summaries) ==
    {m \in summaries :
        \/ \E x \in ViewSections(u, books, sections) : x.id = m.sectionId
        \/ m.sectionId \in Held(u, rq)}
View(u, rq, books, sections, summaries) ==
    <<ViewBooks(u, books), ViewSections(u, books, sections),
      ViewSummaries(u, rq, books, sections, summaries)>>

\* The statement a request in flight executes next, on the given tables.
Pending(r, books, sections, summaries, id, t) ==
    CASE r.pc = "book" -> getOwnedBookStmt(r, books, sections, summaries, t)
      [] r.pc = "section" -> getOwnedSectionStmt(r, books, sections, summaries, t)
      [] r.pc = "stmt2" -> deleteSectionSummariesStmt(r, books, sections, summaries)
      [] r.pc = "stmt" /\ r.op = "createBook" ->
           createBookStmt(r, books, sections, summaries, id)
      [] r.pc = "stmt" /\ r.op = "updateBook" ->
           updateBookStmt(r, books, sections, summaries, t)
      [] r.pc = "stmt" /\ r.op = "listBooks" ->
           listBooksStmt(r, books, sections, summaries)
      [] r.pc = "stmt" /\ r.op = "createBookSection" ->
           createBookSectionStmt(r, books, sections, summaries, id, t)
      [] r.pc = "stmt" /\ r.op = "updateBookSection" ->
           updateBookSectionStmt(r, books, sections, summaries)
      [] r.pc = "stmt" /\ r.op = "deleteBookSection" ->
           deleteBookSectionStmt(r, books, sections, summaries)
      [] r.pc = "stmt" /\ r.op = "listBookSections" ->
           listBookSectionsStmt(r, books, sections, summaries)
      [] r.pc = "stmt" /\ r.op = "createSectionSummary" ->
           createSectionSummaryStmt(r, books, sections, summaries, id, t)
      [] r.pc = "stmt" /\ r.op = "listSectionSummaries" ->
           listSectionSummariesStmt(r, books, sections, summaries)

\* C7: requests of different users do not interact.  Every step of a request
\* of user u leaves the rows of every other user as they were, and its outcome
\* (the request's next state, its result included, and u's rows afterwards) is
\* the outcome of the same statement on a store holding u's rows alone.  By
\* induction along a run, u's requests then go as in the run without the
\* other users' requests.
C7_Isolation ==
    [][/\ (\A s \in Slots : ~Moved(s)) => tables' = tables
       /\ \A s \in Slots :
            Moved(s) =>
              /\ \A v \in Users :
                   v # reqs'[s].user =>
                     View(v, reqs', Books', BookSections', SectionSummaries')
                       = View(v, reqs, Books, BookSections, SectionSummaries)
              /\ ~Called(s) => tables' = tables
              /\ Called(s) =>
                   \E t \in 0..now :
                     LET r == Req(s)
                         u == r.user
                         full == Pending(r, Books, BookSections,
                                         SectionSummaries, nextId, t)
                         alone == Pending(r, ViewBooks(u, Books),
                                     ViewSections(u, Books, BookSections),
                                     ViewSummaries(u, reqs, Books, BookSections,
                                                   SectionSummaries),
                                     nextId, t)
                     IN /\ reqs'[s] = full.req
                        /\ Books' = full.Books
                        /\ BookSections' = full.BookSections
                        /\ SectionSummaries' = full.SectionSummaries
                        /\ alone.req = full.req
                        /\ View(u, reqs', alone.Books, alone.BookSections,
                                alone.SectionSummaries)
                             = View(u, reqs', Books', BookSections',
                                    SectionSummaries')
      ]_vars

\* u1 has listed its books and got one, while u2 has added a book of its own
\* to the same table.
C7_Witness ==
    \E s, t \in Slots :
        /\ Req(s).user = "u1" /\ Req(s).op = "listBooks" /\ Done(s)
        /\ Req(s).out.total = 1
        /\ Req(t).user = "u2" /\ Req(t).op = "createBook" /\ Done(t)
        /\ Req(t).out.row # None
        /\ Req(t).out.row[1] \in Books
        /\ Cardinality(Books) = 3

====
